---- MODULE Spec2Model ----
(***************************************************************************)
(* mempot: a generic in-memory cache with per-item expiry (Unix seconds),  *)
(* lazy expiry on Get and a background cleanup goroutine.                  *)
(*                                                                         *)
(* Time is counted in ticks, TicksPerSecond ticks to the second, so that   *)
(* the truncation of time.Time.Unix() to whole seconds is visible.         *)
(* Variables prefixed with h are history variables: they record what the   *)
(* callers did to one key, hKey, and are never read by the program's       *)
(* actions. The program treats all keys alike, so what is shown of hKey    *)
(* holds of every key.                                                     *)
(***************************************************************************)
EXTENDS Integers, FiniteSets, TLC

\* ------------------------------------------------------------------ bounds

\* resolution of the model clock
TicksPerSecond == 2
\* time.Now().Unix() of the moment the cache is constructed
StartUnix == 100
\* how many single ticks the clock takes
Horizon == 3

Keys == {"k1", "k2"}
Values == {"v1", "v2"}
\* the goroutines that call the cache
Callers == {"c1", "c2"}
\* the caller of the sequential workloads
Single == {"c1"}
\* the zero value of T
Zero == ""
\* the key whose history is recorded
hKey == "k1"
\* the values stored under a key: hKey takes every value, the others one
ValuesOf(k) == IF k = hKey THEN Values ELSE {"v1"}

Second == TicksPerSecond
Minute == 60 * Second

\* ttl arguments of SetWithTTL / RememberWithTTL: never, and below a second
TTLs == {0, 1}
\* the Config of the tests' setupCache(1, 1)
TestConfig == [DefaultTTL |-> Second, CleanupInterval |-> Second]
\* the zero Config, Config{}
ZeroConfig == [DefaultTTL |-> 0, CleanupInterval |-> 0]

\* ------------------------------------------------------------------ Config

DefaultConfig == [DefaultTTL |-> 15 * Minute, CleanupInterval |-> 5 * Minute]

Start == StartUnix * TicksPerSecond

\* ------------------------------------------------------------------ Item

\* time.Time.Unix(): whole seconds, the fraction is dropped
Unix(t) == t \div TicksPerSecond

ZeroItem == [Data |-> Zero, TTL |-> 0]

\* Item.Expired() evaluated when time.Now() is t
Expired(i, t) == IF i.TTL = 0 THEN FALSE ELSE Unix(t) > i.TTL

\* newItem(data, ttl) evaluated when time.Now() is t
newItem(d, ttl, t) ==
    IF ttl = 0 THEN [Data |-> d, TTL |-> 0] ELSE [Data |-> d, TTL |-> Unix(t + ttl)]

\* ------------------------------------------------------------------ state

VARIABLES
    now,          \* time.Now(), in ticks
    cfgIn,        \* the Config passed to NewCache
    cfg,          \* Cache.cfg
    data,         \* Cache.data: a function from the keys present to Items
    mutW,         \* Cache.mut: the holder of the write lock, or "none"
    mutR,         \* Cache.mut: the holders of the read lock
    ctxDone,      \* Cache.ctx is cancelled
    cpc,          \* position of the cleanup goroutine
    toBeDeleted,  \* cleanup's toBeDeleted
    tickerC,      \* a tick is waiting in ticker.C (capacity 1)
    tickerNext,   \* when the ticker fires next
    call,         \* per caller: the operation in progress and its locals
    ret,          \* per caller: what its last finished operation returned
    hLast,        \* the last foreground write, Delete or Reset of hKey
    hStored,      \* hKey was stored at some time
    hMissed       \* a Remember of hKey failed, and hKey was not written since

vars == <<now, cfgIn, cfg, data, mutW, mutR, ctxDone, cpc, toBeDeleted, tickerC,
          tickerNext, call, ret, hLast, hStored, hMissed>>

cacheVars == <<cfgIn, cfg>>
lockVars == <<mutW, mutR>>
cleanupVars == <<cpc, toBeDeleted, tickerC, tickerNext>>
histVars == <<hLast, hStored, hMissed>>

\* hLast: until is the tick at which the written ttl has elapsed (0: no ttl)
\* first: hKey had never been stored before
NoWrite == [kind |-> "none", op |-> "none", by |-> "none", data |-> Zero, until |-> 0,
            first |-> FALSE]

Idle == [pc |-> "idle", op |-> "none", key |-> "none", data |-> Zero, ttl |-> 0,
         item |-> ZeroItem, ok |-> FALSE, err |-> FALSE, queries |-> 0,
         seen |-> NoWrite, missed |-> FALSE, fresh |-> FALSE, dirty |-> FALSE,
         issued |-> 0, afterSet |-> FALSE]

NoRet == [op |-> "none", key |-> "none", item |-> ZeroItem, ok |-> FALSE,
          err |-> FALSE, queries |-> 0]

\* ------------------------------------------------------------------ NewCache

\* the configuration NewCache keeps: DefaultConfig, overridden by positive fields
NewCacheCfg(c) ==
    [DefaultTTL |-> IF c.DefaultTTL > 0 THEN c.DefaultTTL ELSE DefaultConfig.DefaultTTL,
     CleanupInterval |-> IF c.CleanupInterval > 0 THEN c.CleanupInterval
                         ELSE DefaultConfig.CleanupInterval]

\* the state after NewCache(ctx, c) returns
NewCache(config) ==
    /\ now = Start
    /\ cfgIn = config
    /\ cfg = NewCacheCfg(cfgIn)
    /\ data = << >>
    /\ mutW = "none"
    /\ mutR = {}
    /\ ctxDone = FALSE
    /\ cpc = IF cfg.CleanupInterval > 0 THEN "spawned" ELSE "none"
    /\ toBeDeleted = {}
    /\ tickerC = FALSE
    /\ tickerNext = 0
    /\ call = [c \in Callers |-> Idle]
    /\ ret = [c \in Callers |-> NoRet]
    /\ hLast = NoWrite
    /\ hStored = FALSE
    /\ hMissed = FALSE

Init == NewCache(TestConfig)

InitZero == NewCache(ZeroConfig)

\* ------------------------------------------------------------------ sync.RWMutex

\* Lock() returns when no goroutine holds the lock
CanLock == mutW = "none" /\ mutR = {}

\* mutant of CanRLock: readers do not wait for the writer
CanRLockAlways == TRUE

\* RLock() returns when no goroutine holds the write lock
CanRLock == mutW = "none"

\* ------------------------------------------------------------------ map helpers

\* item, ok := c.data[key]
Lookup(key) ==
    IF key \in DOMAIN data THEN [item |-> data[key], ok |-> TRUE]
    ELSE [item |-> ZeroItem, ok |-> FALSE]

\* c.data[key] = item
Store(key, item) == [k \in (DOMAIN data) \cup {key} |-> IF k = key THEN item ELSE data[k]]

\* delete(c.data, key) for every key of ks
Remove(ks) == [k \in (DOMAIN data) \ ks |-> data[k]]

\* ------------------------------------------------------------------ callers

RememberOps == {"Remember", "RememberWithTTL"}

\* caller c enters an operation with its arguments
\* (afterSet: a Get that comes right after the caller's own Set of the same key)
Called(c, op, key, d, ttl, pc) ==
    [call EXCEPT ![c] = [Idle EXCEPT !.pc = pc, !.op = op, !.key = key, !.data = d,
                                      !.ttl = ttl,
                                      !.issued = IF op = "Get" THEN now ELSE 0,
                                      !.afterSet = /\ op = "Get"
                                                   /\ ret[c].op = "Set"
                                                   /\ ret[c].key = key]]

\* caller c returns
Return(c, item, ok, err, queries) ==
    /\ ret' = [ret EXCEPT ![c] = [op |-> call[c].op, key |-> call[c].key, item |-> item,
                                   ok |-> ok, err |-> err, queries |-> queries]]
    /\ call' = [call EXCEPT ![c] = Idle]

\* Set(key, value): c.SetWithTTL(key, value, c.cfg.DefaultTTL)
Set(c) ==
    /\ call[c].pc = "idle"
    /\ \E k \in Keys : \E v \in ValuesOf(k) :
           call' = Called(c, "Set", k, v, cfg.DefaultTTL, "SetWithTTL.Lock")
    /\ ret' = [ret EXCEPT ![c] = NoRet]
    /\ UNCHANGED <<now, cacheVars, data, lockVars, ctxDone, cleanupVars, histVars>>

\* SetWithTTL(key, data, ttl)
SetWithTTL(c) ==
    /\ call[c].pc = "idle"
    /\ \E k \in Keys, ttl \in TTLs : \E v \in ValuesOf(k) :
           call' = Called(c, "SetWithTTL", k, v, ttl, "SetWithTTL.Lock")
    /\ ret' = [ret EXCEPT ![c] = NoRet]
    /\ UNCHANGED <<now, cacheVars, data, lockVars, ctxDone, cleanupVars, histVars>>

\* Get(key)
Get(c) ==
    /\ call[c].pc = "idle"
    /\ \E k \in Keys : call' = Called(c, "Get", k, Zero, 0, "Get.RLock")
    /\ ret' = [ret EXCEPT ![c] = NoRet]
    /\ UNCHANGED <<now, cacheVars, data, lockVars, ctxDone, cleanupVars, histVars>>

\* mutant of Remember: passes no time-to-live instead of the default
RememberNoTTL(c) ==
    /\ call[c].pc = "idle"
    /\ \E k \in Keys : call' = Called(c, "Remember", k, Zero, 0, "Get.RLock")
    /\ ret' = [ret EXCEPT ![c] = NoRet]
    /\ UNCHANGED <<now, cacheVars, data, lockVars, ctxDone, cleanupVars, histVars>>

\* Remember(key, query): c.RememberWithTTL(key, query, c.cfg.DefaultTTL)
Remember(c) ==
    /\ call[c].pc = "idle"
    /\ \E k \in Keys : call' = Called(c, "Remember", k, Zero, cfg.DefaultTTL, "Get.RLock")
    /\ ret' = [ret EXCEPT ![c] = NoRet]
    /\ UNCHANGED <<now, cacheVars, data, lockVars, ctxDone, cleanupVars, histVars>>

\* RememberWithTTL(key, query, ttl): item, ok := c.Get(key) comes first
RememberWithTTL(c) ==
    /\ call[c].pc = "idle"
    /\ \E k \in Keys, ttl \in TTLs :
           call' = Called(c, "RememberWithTTL", k, Zero, ttl, "Get.RLock")
    /\ ret' = [ret EXCEPT ![c] = NoRet]
    /\ UNCHANGED <<now, cacheVars, data, lockVars, ctxDone, cleanupVars, histVars>>

\* Delete(key)
Delete(c) ==
    /\ call[c].pc = "idle"
    /\ \E k \in Keys : call' = Called(c, "Delete", k, Zero, 0, "Delete.Lock")
    /\ ret' = [ret EXCEPT ![c] = NoRet]
    /\ UNCHANGED <<now, cacheVars, data, lockVars, ctxDone, cleanupVars, histVars>>

\* Reset()
Reset(c) ==
    /\ call[c].pc = "idle"
    /\ call' = Called(c, "Reset", "none", Zero, 0, "Reset.Lock")
    /\ ret' = [ret EXCEPT ![c] = NoRet]
    /\ UNCHANGED <<now, cacheVars, data, lockVars, ctxDone, cleanupVars, histVars>>

\* c.mut.Lock() of SetWithTTL, Delete and Reset
Lock(c) ==
    /\ call[c].pc \in {"SetWithTTL.Lock", "Delete.Lock", "Reset.Lock"}
    /\ CanLock
    /\ mutW' = c
    /\ call' = [call EXCEPT ![c].pc =
                   CASE call[c].pc = "SetWithTTL.Lock" -> "SetWithTTL.write"
                     [] call[c].pc = "Delete.Lock" -> "Delete.delete"
                     [] OTHER -> "Reset.make"]
    /\ UNCHANGED <<now, cacheVars, data, mutR, ctxDone, cleanupVars, ret, histVars>>

\* the callers whose read of key is made stale by a write of c
Stale(c, key) ==
    {d \in Callers \ {c} : /\ call[d].key = key
                           /\ call[d].pc \in {"Get.expired", "query", "Remember.err"}}

\* c.data[key] = newItem(data, ttl); c.mut.Unlock()
SetWithTTLWrite(c) ==
    LET key == call[c].key
        written == [kind |-> "set", op |-> call[c].op, by |-> c, data |-> call[c].data,
                    until |-> IF call[c].ttl = 0 THEN 0 ELSE now + call[c].ttl,
                    first |-> ~hStored]
        marked == [d \in Callers |-> IF d \in Stale(c, key)
                                     THEN [call[d] EXCEPT !.dirty = TRUE] ELSE call[d]]
    IN  /\ call[c].pc = "SetWithTTL.write"
        /\ mutW = c
        /\ data' = Store(key, newItem(call[c].data, call[c].ttl, now))
        /\ mutW' = "none"
        /\ hLast' = IF key = hKey THEN written ELSE hLast
        /\ hStored' = (hStored \/ key = hKey)
        /\ hMissed' = (hMissed /\ key # hKey)
        /\ IF call[c].op \in RememberOps
           THEN /\ call' = [marked EXCEPT ![c].pc = "Remember.return"]
                /\ ret' = ret
           ELSE /\ call' = [marked EXCEPT ![c] = Idle]
                /\ ret' = [ret EXCEPT ![c] = [NoRet EXCEPT !.op = call[c].op, !.key = key]]
        /\ UNCHANGED <<now, cacheVars, mutR, ctxDone, cleanupVars>>

\* c.mut.RLock() of Get
GetRLock(c) ==
    /\ call[c].pc = "Get.RLock"
    /\ CanRLock
    /\ mutR' = mutR \cup {c}
    /\ call' = [call EXCEPT ![c].pc = "Get.read"]
    /\ UNCHANGED <<now, cacheVars, data, mutW, ctxDone, cleanupVars, ret, histVars>>

\* mutant of GetRead: the Get inside Remember keeps the read lock
GetReadKeepsLock(c) ==
    /\ call[c].pc = "Get.read"
    /\ c \in mutR
    /\ mutR' = IF call[c].op \in RememberOps THEN mutR ELSE mutR \ {c}
    /\ call' = [call EXCEPT ![c].pc = "Get.expired",
                            ![c].item = Lookup(call[c].key).item,
                            ![c].ok = Lookup(call[c].key).ok,
                            ![c].seen = IF call[c].key = hKey THEN hLast ELSE NoWrite,
                            ![c].missed = (call[c].key = hKey /\ hMissed),
                            ![c].fresh = (call[c].key = hKey /\ ~hStored)]
    /\ UNCHANGED <<now, cacheVars, data, mutW, ctxDone, cleanupVars, ret, histVars>>

\* item, ok := c.data[key]; c.mut.RUnlock()
GetRead(c) ==
    /\ call[c].pc = "Get.read"
    /\ c \in mutR
    /\ mutR' = mutR \ {c}
    /\ call' = [call EXCEPT ![c].pc = "Get.expired",
                            ![c].item = Lookup(call[c].key).item,
                            ![c].ok = Lookup(call[c].key).ok,
                            ![c].seen = IF call[c].key = hKey THEN hLast ELSE NoWrite,
                            ![c].missed = (call[c].key = hKey /\ hMissed),
                            ![c].fresh = (call[c].key = hKey /\ ~hStored)]
    /\ UNCHANGED <<now, cacheVars, data, mutW, ctxDone, cleanupVars, ret, histVars>>

\* what Get returns for the item it read, when time.Now() is t:
\* if item.Expired() { return Item[T]{}, false }; return item, ok
GetResult(item, ok, t) ==
    IF Expired(item, t) THEN [item |-> ZeroItem, ok |-> FALSE] ELSE [item |-> item, ok |-> ok]

\* mutant of GetReturn: a Get that finds an expired item deletes it
GetReturnEvicts(c) ==
    LET r == GetResult(call[c].item, call[c].ok, now)
    IN  /\ call[c].pc = "Get.expired"
        /\ call[c].op = "Get"
        /\ Return(c, r.item, r.ok, FALSE, 0)
        /\ data' = IF Expired(call[c].item, now) THEN Remove({call[c].key}) ELSE data
        /\ UNCHANGED <<now, cacheVars, lockVars, ctxDone, cleanupVars, histVars>>

\* Get returns to its caller
GetReturn(c) ==
    LET r == GetResult(call[c].item, call[c].ok, now)
    IN  /\ call[c].pc = "Get.expired"
        /\ call[c].op = "Get"
        /\ Return(c, r.item, r.ok, FALSE, 0)
        /\ UNCHANGED <<now, cacheVars, data, lockVars, ctxDone, cleanupVars, histVars>>

\* RememberWithTTL: item, ok := c.Get(key); if ok { return item, nil }
RememberHit(c) ==
    LET r == GetResult(call[c].item, call[c].ok, now)
    IN  /\ call[c].pc = "Get.expired"
        /\ call[c].op \in RememberOps
        /\ r.ok
        /\ Return(c, r.item, TRUE, FALSE, call[c].queries)
        /\ UNCHANGED <<now, cacheVars, data, lockVars, ctxDone, cleanupVars, histVars>>

\* mutant of RememberMiss: query(key) is called whether or not the Get missed
RememberMissUnguarded(c) ==
    /\ call[c].pc = "Get.expired"
    /\ call[c].op \in RememberOps
    /\ call' = [call EXCEPT ![c].pc = "query", ![c].queries = call[c].queries + 1]
    /\ UNCHANGED <<now, cacheVars, data, lockVars, ctxDone, cleanupVars, ret, histVars>>

\* RememberWithTTL: the Get missed, query(key) is called
RememberMiss(c) ==
    LET r == GetResult(call[c].item, call[c].ok, now)
    IN  /\ call[c].pc = "Get.expired"
        /\ call[c].op \in RememberOps
        /\ ~r.ok
        /\ call' = [call EXCEPT ![c].pc = "query", ![c].queries = call[c].queries + 1]
        /\ UNCHANGED <<now, cacheVars, data, lockVars, ctxDone, cleanupVars, ret, histVars>>

\* data, err := query(key): the caller's function returns data or an error
QueryFunc(c) ==
    /\ call[c].pc = "query"
    /\ \/ call' = [call EXCEPT ![c].pc = "Remember.err", ![c].err = TRUE]
       \/ \E v \in ValuesOf(call[c].key) :
              call' = [call EXCEPT ![c].pc = "Remember.err", ![c].data = v]
    /\ UNCHANGED <<now, cacheVars, data, lockVars, ctxDone, cleanupVars, ret, histVars>>

\* mutant of RememberErr: stores what query returned before it returns the error
RememberErrStores(c) ==
    /\ call[c].pc = "Remember.err"
    /\ call[c].err
    /\ data' = Store(call[c].key, newItem(call[c].data, call[c].ttl, now))
    /\ Return(c, ZeroItem, FALSE, TRUE, call[c].queries)
    /\ hMissed' = (hMissed \/ (call[c].key = hKey /\ ~call[c].dirty))
    /\ UNCHANGED <<now, cacheVars, lockVars, ctxDone, cleanupVars, hLast, hStored>>

\* if err != nil { return Item[T]{}, fmt.Errorf("failed to query data: %w", err) }
RememberErr(c) ==
    /\ call[c].pc = "Remember.err"
    /\ call[c].err
    /\ Return(c, ZeroItem, FALSE, TRUE, call[c].queries)
    /\ hMissed' = (hMissed \/ (call[c].key = hKey /\ ~call[c].dirty))
    /\ UNCHANGED <<now, cacheVars, data, lockVars, ctxDone, cleanupVars, hLast, hStored>>

\* err == nil: c.SetWithTTL(key, data, ttl)
RememberSet(c) ==
    /\ call[c].pc = "Remember.err"
    /\ ~call[c].err
    /\ call' = [call EXCEPT ![c].pc = "SetWithTTL.Lock"]
    /\ UNCHANGED <<now, cacheVars, data, lockVars, ctxDone, cleanupVars, ret, histVars>>

\* mutant of RememberReturn: returns what the map holds under the key
RememberReturnStored(c) ==
    /\ call[c].pc = "Remember.return"
    /\ Return(c, Lookup(call[c].key).item, TRUE, FALSE, call[c].queries)
    /\ UNCHANGED <<now, cacheVars, data, lockVars, ctxDone, cleanupVars, histVars>>

\* return newItem(data, ttl), nil
RememberReturn(c) ==
    /\ call[c].pc = "Remember.return"
    /\ Return(c, newItem(call[c].data, call[c].ttl, now), TRUE, FALSE, call[c].queries)
    /\ UNCHANGED <<now, cacheVars, data, lockVars, ctxDone, cleanupVars, histVars>>

\* mutant of DeleteDelete: removes every key
DeleteDeleteAll(c) ==
    /\ call[c].pc = "Delete.delete"
    /\ mutW = c
    /\ data' = << >>
    /\ mutW' = "none"
    /\ hLast' = IF call[c].key = hKey THEN [NoWrite EXCEPT !.kind = "delete", !.by = c]
                ELSE hLast
    /\ Return(c, ZeroItem, FALSE, FALSE, 0)
    /\ UNCHANGED <<now, cacheVars, mutR, ctxDone, cleanupVars, hStored, hMissed>>

\* delete(c.data, key); c.mut.Unlock()
DeleteDelete(c) ==
    LET key == call[c].key
    IN  /\ call[c].pc = "Delete.delete"
        /\ mutW = c
        /\ data' = Remove({key})
        /\ mutW' = "none"
        /\ hLast' = IF key = hKey THEN [NoWrite EXCEPT !.kind = "delete", !.by = c] ELSE hLast
        /\ Return(c, ZeroItem, FALSE, FALSE, 0)
        /\ UNCHANGED <<now, cacheVars, mutR, ctxDone, cleanupVars, hStored, hMissed>>

\* mutant of ResetMake: removes the expired items only
ResetMakeExpired(c) ==
    /\ call[c].pc = "Reset.make"
    /\ mutW = c
    /\ data' = [k \in {x \in DOMAIN data : ~Expired(data[x], now)} |-> data[k]]
    /\ mutW' = "none"
    /\ hLast' = [NoWrite EXCEPT !.kind = "reset", !.by = c]
    /\ Return(c, ZeroItem, FALSE, FALSE, 0)
    /\ UNCHANGED <<now, cacheVars, mutR, ctxDone, cleanupVars, hStored, hMissed>>

\* c.data = make(map[K]Item[T]); c.mut.Unlock()
ResetMake(c) ==
    /\ call[c].pc = "Reset.make"
    /\ mutW = c
    /\ data' = << >>
    /\ mutW' = "none"
    /\ hLast' = [NoWrite EXCEPT !.kind = "reset", !.by = c]
    /\ Return(c, ZeroItem, FALSE, FALSE, 0)
    /\ UNCHANGED <<now, cacheVars, mutR, ctxDone, cleanupVars, hStored, hMissed>>

\* ------------------------------------------------------------------ cleanup

callerVars == <<call, ret>>

\* go c.cleanup(): ticker := time.NewTicker(c.cfg.CleanupInterval)
CleanupStart ==
    /\ cpc = "spawned"
    /\ cpc' = "select"
    /\ tickerNext' = now + cfg.CleanupInterval
    /\ UNCHANGED <<now, cacheVars, data, lockVars, ctxDone, toBeDeleted, tickerC,
                   callerVars, histVars>>

\* mutant of CleanupDone: the stopping goroutine drops the expired items
CleanupDoneSweeps ==
    /\ cpc = "select"
    /\ ctxDone
    /\ cpc' = "stopped"
    /\ tickerNext' = 0
    /\ tickerC' = FALSE
    /\ data' = [k \in {x \in DOMAIN data : ~Expired(data[x], now)} |-> data[k]]
    /\ UNCHANGED <<now, cacheVars, lockVars, ctxDone, toBeDeleted, callerVars, histVars>>

\* case <-c.ctx.Done(): ticker.Stop(); return
CleanupDone ==
    /\ cpc = "select"
    /\ ctxDone
    /\ cpc' = "stopped"
    /\ tickerNext' = 0
    /\ tickerC' = FALSE
    /\ UNCHANGED <<now, cacheVars, data, lockVars, ctxDone, toBeDeleted, callerVars, histVars>>

\* case <-ticker.C: toBeDeleted := make([]K, 0)
CleanupTick ==
    /\ cpc = "select"
    /\ tickerC
    /\ tickerC' = FALSE
    /\ toBeDeleted' = {}
    /\ cpc' = "RLock"
    /\ UNCHANGED <<now, cacheVars, data, lockVars, ctxDone, tickerNext, callerVars, histVars>>

\* c.mut.RLock()
CleanupRLock ==
    /\ cpc = "RLock"
    /\ CanRLock
    /\ mutR' = mutR \cup {"cleanup"}
    /\ cpc' = "scan"
    /\ UNCHANGED <<now, cacheVars, data, mutW, ctxDone, toBeDeleted, tickerC, tickerNext,
                   callerVars, histVars>>

\* mutant of ExpiredKeys: the scan collects every key
ExpiredKeysAll(t) == DOMAIN data

\* the keys the scan collects when time.Now() is t
ExpiredKeys(t) == {k \in DOMAIN data : Expired(data[k], t)}

\* mutant of CleanupScan: the scan keeps the read lock
CleanupScanKeepsLock ==
    /\ cpc = "scan"
    /\ "cleanup" \in mutR
    /\ toBeDeleted' = ExpiredKeys(now)
    /\ cpc' = "Lock"
    /\ UNCHANGED <<now, cacheVars, data, lockVars, ctxDone, tickerC, tickerNext,
                   callerVars, histVars>>

\* for key, item := range c.data { if item.Expired() { append } }; c.mut.RUnlock()
CleanupScan ==
    /\ cpc = "scan"
    /\ "cleanup" \in mutR
    /\ toBeDeleted' = ExpiredKeys(now)
    /\ mutR' = mutR \ {"cleanup"}
    /\ cpc' = "Lock"
    /\ UNCHANGED <<now, cacheVars, data, mutW, ctxDone, tickerC, tickerNext,
                   callerVars, histVars>>

\* c.mut.Lock()
CleanupLock ==
    /\ cpc = "Lock"
    /\ CanLock
    /\ mutW' = "cleanup"
    /\ cpc' = "remove"
    /\ UNCHANGED <<now, cacheVars, data, mutR, ctxDone, toBeDeleted, tickerC, tickerNext,
                   callerVars, histVars>>

\* mutant of CleanupRemove: the removal pass looks at the item again
CleanupRemoveChecked ==
    /\ cpc = "remove"
    /\ mutW = "cleanup"
    /\ data' = Remove(toBeDeleted \cap ExpiredKeys(now))
    /\ toBeDeleted' = {}
    /\ mutW' = "none"
    /\ cpc' = "select"
    /\ UNCHANGED <<now, cacheVars, mutR, ctxDone, tickerC, tickerNext, callerVars, histVars>>

\* for _, key := range toBeDeleted { delete(c.data, key) }; c.mut.Unlock()
\* (toBeDeleted is dead until the next tick makes a new one)
CleanupRemove ==
    /\ cpc = "remove"
    /\ mutW = "cleanup"
    /\ data' = Remove(toBeDeleted)
    /\ toBeDeleted' = {}
    /\ mutW' = "none"
    /\ cpc' = "select"
    /\ UNCHANGED <<now, cacheVars, mutR, ctxDone, tickerC, tickerNext, callerVars, histVars>>

\* ------------------------------------------------------------------ environment

\* the owner of the context cancels it
Cancel ==
    /\ ~ctxDone
    /\ ctxDone' = TRUE
    /\ UNCHANGED <<now, cacheVars, data, lockVars, cleanupVars, callerVars, histVars>>

TickerRunning == cpc \notin {"none", "spawned", "stopped"}

\* the first firing time of the ticker after t
NextFire(t) ==
    IF t < tickerNext THEN tickerNext
    ELSE tickerNext + ((t - tickerNext) \div cfg.CleanupInterval + 1) * cfg.CleanupInterval

\* long enough for an entry stored with the default time-to-live to expire
LongDelay == cfg.DefaultTTL + Second

\* how far the clock runs
MaxNow == Start + (IF LongDelay > Horizon THEN LongDelay ELSE Horizon)

\* time passes, by a tick while within the horizon, or by the long delay;
\* a running ticker that comes due leaves one tick in ticker.C
Tick ==
    \E d \in {1, LongDelay} :
        /\ now + d <= (IF d = 1 THEN Start + Horizon ELSE MaxNow)
        /\ now' = now + d
        /\ IF TickerRunning /\ now' >= tickerNext
           THEN tickerC' = TRUE /\ tickerNext' = NextFire(now')
           ELSE UNCHANGED <<tickerC, tickerNext>>
        /\ UNCHANGED <<cacheVars, data, lockVars, ctxDone, cpc, toBeDeleted,
                       callerVars, histVars>>

\* ------------------------------------------------------------------ specification

\* the steps inside an operation
InnerStep(c) ==
    \/ Lock(c)
    \/ SetWithTTLWrite(c)
    \/ GetRLock(c)
    \/ GetRead(c)
    \/ GetReturn(c)
    \/ RememberHit(c)
    \/ RememberMiss(c)
    \/ QueryFunc(c)
    \/ RememberErr(c)
    \/ RememberSet(c)
    \/ RememberReturn(c)
    \/ DeleteDelete(c)
    \/ ResetMake(c)

CallerStep(c) ==
    \/ Set(c)
    \/ SetWithTTL(c)
    \/ Get(c)
    \/ Remember(c)
    \/ RememberWithTTL(c)
    \/ Delete(c)
    \/ Reset(c)
    \/ InnerStep(c)

CleanupStep ==
    \/ CleanupStart
    \/ CleanupDone
    \/ CleanupTick
    \/ CleanupRLock
    \/ CleanupScan
    \/ CleanupLock
    \/ CleanupRemove

\* the cleanup goroutine of a cache whose context is never cancelled
SweepStep ==
    \/ CleanupStart
    \/ CleanupTick
    \/ CleanupRLock
    \/ CleanupScan
    \/ CleanupLock
    \/ CleanupRemove

Next ==
    \/ \E c \in Single : CallerStep(c)
    \/ CleanupStep
    \/ Cancel
    \/ Tick

Spec == Init /\ [][Next]_vars

\* a cache constructed with the zero Config
SpecZero == InitZero /\ [][Next]_vars

\* ------------------------------------------------------------------ fairness

\* a caller's goroutine is scheduled: the steps that wait for nothing
Runs(c) ==
    \/ SetWithTTLWrite(c)
    \/ GetRead(c)
    \/ GetReturn(c)
    \/ RememberHit(c)
    \/ RememberMiss(c)
    \/ RememberErr(c)
    \/ RememberSet(c)
    \/ RememberReturn(c)
    \/ DeleteDelete(c)
    \/ ResetMake(c)

\* the cleanup goroutine is scheduled: the steps that wait for nothing
\* (a select with a tick waiting in ticker.C does not block)
CleanupRuns == CleanupStart \/ CleanupTick \/ CleanupScan \/ CleanupRemove

\* the Go scheduler runs every runnable goroutine; sync.RWMutex starves neither
\* readers nor writers; select picks among its ready cases at random, so a case that
\* is ready again and again is taken. The callers need not call, and the clock and the
\* owner of the context are free.
Fairness ==
    /\ \A c \in Callers : WF_vars(Runs(c)) /\ SF_vars(Lock(c)) /\ SF_vars(GetRLock(c))
    /\ WF_vars(CleanupRuns)
    /\ SF_vars(CleanupRLock)
    /\ SF_vars(CleanupLock)
    /\ SF_vars(CleanupDone)

\* ------------------------------------------------------------------ one key, one caller

\* the call caller c enters is on hKey with the value "v1"
OnKey(c) == call'[c].key \in {hKey, "none"} /\ call'[c].data \in {Zero, "v1"}

\* a caller that sets, reads and deletes one key while the sweep runs and is stopped
StopStep(c) ==
    \/ Set(c) /\ OnKey(c)
    \/ SetWithTTL(c) /\ OnKey(c)
    \/ Get(c) /\ OnKey(c)
    \/ Delete(c) /\ OnKey(c)
    \/ Reset(c)
    \/ Lock(c)
    \/ SetWithTTLWrite(c)
    \/ GetRLock(c)
    \/ GetRead(c)
    \/ GetReturn(c)
    \/ DeleteDelete(c)
    \/ ResetMake(c)

NextStop ==
    \/ \E c \in Single : StopStep(c)
    \/ CleanupStep
    \/ Cancel
    \/ Tick

\* the cache of the tests under the fair scheduler
SpecStop == Init /\ [][NextStop]_vars /\ Fairness

\* ------------------------------------------------------------------ one key, two callers

\* the value a caller stores, and its query function returns
Own(c) == IF c = "c1" THEN "v1" ELSE "v2"

\* the call caller c enters is on hKey with its own value
OnKeyOwn(c) == call'[c].key \in {hKey, "none"} /\ call'[c].data \in {Zero, Own(c)}

\* two callers work on one key while the sweep runs
\* (the clock makes one jump, after which what was stored before it has expired)
TwoStep(c) ==
    \/ Set(c) /\ OnKeyOwn(c)
    \/ Get(c) /\ OnKeyOwn(c)
    \/ Remember(c) /\ OnKeyOwn(c)
    \/ Delete(c) /\ OnKeyOwn(c)
    \/ Reset(c)
    \/ Lock(c)
    \/ SetWithTTLWrite(c)
    \/ GetRLock(c)
    \/ GetRead(c)
    \/ GetReturn(c)
    \/ RememberHit(c)
    \/ RememberMiss(c)
    \/ QueryFunc(c) /\ call'[c].data \in {Zero, Own(c)}
    \/ RememberErr(c)
    \/ RememberSet(c)
    \/ RememberReturn(c)
    \/ DeleteDelete(c)
    \/ ResetMake(c)

\* time passes by the long delay
Jump == Tick /\ now' = now + LongDelay

NextTwo ==
    \/ \E c \in Callers : TwoStep(c)
    \/ SweepStep
    \/ Jump

SpecTwo == Init /\ [][NextTwo]_vars

\* ------------------------------------------------------------------ a slow query

\* caller c has made no call yet, or only calls of Set
Once(c) == ret[c].op \in {"none", "Set"}

\* c1 remembers the key while c2 sets it and then reads, deletes or resets it, and the
\* sweep runs
LiveStep(c) ==
    \/ c = "c1" /\ Once(c) /\ Remember(c) /\ OnKeyOwn(c)
    \/ c = "c1" /\ Once(c) /\ RememberWithTTL(c) /\ OnKeyOwn(c)
    \/ c = "c2" /\ Once(c) /\ Set(c) /\ OnKeyOwn(c)
    \/ c = "c2" /\ Once(c) /\ SetWithTTL(c) /\ OnKeyOwn(c)
    \/ c = "c2" /\ Once(c) /\ Get(c) /\ OnKeyOwn(c)
    \/ c = "c2" /\ Once(c) /\ Delete(c) /\ OnKeyOwn(c)
    \/ c = "c2" /\ Once(c) /\ Reset(c)
    \/ Lock(c)
    \/ SetWithTTLWrite(c)
    \/ GetRLock(c)
    \/ GetRead(c)
    \/ GetReturn(c)
    \/ RememberHit(c)
    \/ RememberMiss(c)
    \/ QueryFunc(c) /\ call'[c].data \in {Zero, Own(c)}
    \/ RememberErr(c)
    \/ RememberSet(c)
    \/ RememberReturn(c)
    \/ DeleteDelete(c)
    \/ ResetMake(c)

NextLive ==
    \/ \E c \in Callers : LiveStep(c)
    \/ SweepStep
    \/ Jump

\* the query function may never return
SpecSlow == Init /\ [][NextLive]_vars /\ Fairness

\* the query function returns
SpecLive == Init /\ [][NextLive]_vars /\ Fairness /\ \A c \in Callers : WF_vars(QueryFunc(c))

\* ------------------------------------------------------------------ claims

\* this step is caller c's Get returning
GetReturns(c) == call[c].pc = "Get.expired" /\ call[c].op = "Get" /\ call'[c].pc = "idle"

\* this step is caller c leaving position pc
Leaves(c, pc) == call[c].pc = pc /\ call'[c].pc # pc

\* the call of c that returns in this step returns (v, true)
Finds(c, v) == ret'[c].ok /\ ret'[c].item.Data = v

\* C1: a caller's Set(k, v) followed at once by its Get(k), the clock not past the
\* default TTL, returns (v, true), whatever the cleanup goroutine is doing.
C1_RoundTrip ==
    [][\A c \in Callers :
          (/\ GetReturns(c)
           /\ call[c].afterSet
           /\ call[c].seen.kind = "set"
           /\ call[c].seen.op = "Set"
           /\ call[c].seen.by = c
           /\ now <= call[c].seen.until)
          => Finds(c, call[c].seen.data)]_vars

\* C2: after SetWithTTL(k, v, ttl) at t with ttl > 0 and no later write to k, a Get(k)
\* issued strictly later than t + ttl returns not-found.
C2_ExpiredAfterTTL ==
    [][\A c \in Callers :
          (/\ GetReturns(c)
           /\ call[c].seen.kind = "set"
           /\ call[c].seen.until > 0
           /\ call[c].issued > call[c].seen.until)
          => ~ret'[c].ok]_vars

\* C3: after SetWithTTL(k, v, ttl) at t with ttl > 0 and no later Delete, Reset or write
\* of k, a Get(k) that is over strictly before t + ttl returns (v, true), and the
\* cleanup goroutine does not remove k before t + ttl.
C3_ValidBeforeTTL ==
    [][/\ \A c \in Callers :
            (/\ GetReturns(c)
             /\ call[c].seen.kind = "set"
             /\ call[c].seen.until > 0
             /\ now < call[c].seen.until)
            => Finds(c, call[c].seen.data)
       /\ (/\ cpc = "remove"
           /\ cpc' # cpc
           /\ hLast.kind = "set"
           /\ hLast.until > 0
           /\ now < hLast.until
           /\ hKey \in DOMAIN data)
          => hKey \in DOMAIN data']_vars

\* C4: after SetWithTTL(k, v, 0) and no later write, Delete or Reset of k, every Get(k)
\* returns (v, true), at every later time and after any number of sweeps.
C4_NeverExpire ==
    [][\A c \in Callers :
          (/\ GetReturns(c)
           /\ call[c].seen.kind = "set"
           /\ call[c].seen.op = "SetWithTTL"
           /\ call[c].seen.until = 0)
          => Finds(c, call[c].seen.data)]_vars

\* C5: when the query function of Remember/RememberWithTTL(k) returns an error, the
\* call returns an error and writes nothing to the map, and a following Get(k) with
\* no write of k in between returns not-found.
C5_RememberFailure ==
    [][\A c \in Callers :
          /\ (Leaves(c, "Remember.err") /\ call[c].err)
             => (call'[c].pc = "idle" /\ ret'[c].err /\ ~ret'[c].ok /\ data' = data)
          /\ (GetReturns(c) /\ call[c].missed) => ~ret'[c].ok]_vars

\* a Get of hKey returned not-found after a Remember of hKey failed
C5_Witness ==
    \E c \in Callers :
        ret[c].op = "Get" /\ ret[c].key = hKey /\ ~ret[c].ok /\ hMissed /\ hStored

\* C6: when the Get inside Remember/RememberWithTTL(k) finds an item that is not
\* expired, the query function is not invoked, the map is not written and the call
\* returns that item and a nil error.
C6_RememberHit ==
    [][\A c \in Callers :
          (/\ call[c].op \in RememberOps
           /\ Leaves(c, "Get.expired")
           /\ call[c].ok
           /\ ~Expired(call[c].item, now))
          => (/\ call'[c].pc = "idle"
              /\ ret'[c].ok
              /\ ~ret'[c].err
              /\ ret'[c].item = call[c].item
              /\ ret'[c].queries = 0
              /\ data' = data)]_vars

\* a Remember returned the cached item without a query
C6_Witness ==
    \E c \in Callers :
        /\ ret[c].op \in RememberOps
        /\ ret[c].ok
        /\ ~ret[c].err
        /\ ret[c].queries = 0
        /\ ret[c].item.Data \in Values

\* C7: with one caller, Remember(k, query) of a key never stored invokes query once;
\* when query returns v the call returns v and a nil error and stores v under k with
\* the default TTL, and a Get(k) over before that TTL has elapsed returns (v, true).
C7_RememberMiss ==
    [][\A c \in Callers :
          /\ (call[c].op = "Remember" /\ call[c].fresh /\ Leaves(c, "Get.expired"))
             => call'[c].pc = "query"
          /\ (call[c].op = "Remember" /\ call[c].fresh /\ call'[c].pc = "idle")
             => ret'[c].queries = 1
          /\ (call[c].op = "Remember" /\ Leaves(c, "SetWithTTL.write"))
             => (/\ call[c].key \in DOMAIN data'
                 /\ data'[call[c].key] = newItem(call[c].data, cfg.DefaultTTL, now))
          /\ (call[c].op = "Remember" /\ call[c].fresh /\ Leaves(c, "Remember.return"))
             => (/\ call'[c].pc = "idle"
                 /\ ~ret'[c].err
                 /\ Finds(c, call[c].data)
                 /\ hLast.kind = "set" /\ hLast.data = call[c].data /\ hLast.first)
          /\ (/\ GetReturns(c)
              /\ call[c].seen.kind = "set"
              /\ call[c].seen.op = "Remember"
              /\ call[c].seen.first
              /\ now < call[c].seen.until)
             => Finds(c, call[c].seen.data)]_vars

\* a Get found what a Remember of the never stored hKey had stored
C7_Witness ==
    \E c \in Callers :
        /\ ret[c].op = "Get"
        /\ ret[c].key = hKey
        /\ ret[c].ok
        /\ hLast.kind = "set"
        /\ hLast.op = "Remember"
        /\ hLast.first
        /\ ret[c].item.Data = hLast.data

\* C8: after Delete(k) and no later write of k, Get(k) returns not-found; Delete(k)
\* of an absent key leaves the map unchanged and does not fail; Delete(k) changes the
\* entry of no other key.
C8_Delete ==
    [][\A c \in Callers :
          /\ (GetReturns(c) /\ call[c].seen.kind = "delete") => ~ret'[c].ok
          /\ Leaves(c, "Delete.delete")
             => (/\ call'[c].pc = "idle"
                 /\ ~ret'[c].err
                 /\ DOMAIN data' = (DOMAIN data) \ {call[c].key}
                 /\ \A k \in DOMAIN data' : data'[k] = data[k]
                 /\ (call[c].key \notin DOMAIN data => data' = data))]_vars

\* a Get of hKey returned not-found after its Delete, another key still being stored
C8_Witness ==
    \E c \in Callers :
        /\ ret[c].op = "Get"
        /\ ret[c].key = hKey
        /\ ~ret[c].ok
        /\ hLast.kind = "delete"
        /\ hStored
        /\ DOMAIN data # {}

\* C9: when Reset() completes the map is empty, and Get(k) returns not-found for
\* every key stored before the Reset and not written after it.
C9_Reset ==
    [][\A c \in Callers :
          /\ Leaves(c, "Reset.make") => (call'[c].pc = "idle" /\ data' = << >>)
          /\ (GetReturns(c) /\ call[c].seen.kind = "reset") => ~ret'[c].ok]_vars

\* a Get of hKey, stored before, returned not-found after a Reset
C9_Witness ==
    \E c \in Callers :
        ret[c].op = "Get" /\ ret[c].key = hKey /\ ~ret[c].ok /\ hLast.kind = "reset" /\ hStored

\* C10: in a cache constructed with Config.DefaultTTL = 0, what Set(k, v) or a missing
\* Remember stores never expires: Get(k) returns (v, true) at every later time, as
\* long as k is not written, deleted or reset.
C10_ZeroDefaultTTL ==
    [][\A c \in Callers :
          /\ (/\ cfgIn.DefaultTTL = 0
              /\ call[c].op \in {"Set", "Remember"}
              /\ Leaves(c, "SetWithTTL.write"))
             => \A t \in now..MaxNow : ~Expired(data'[call[c].key], t)
          /\ (/\ GetReturns(c)
              /\ cfgIn.DefaultTTL = 0
              /\ call[c].seen.kind = "set"
              /\ call[c].seen.op \in {"Set", "Remember"})
             => Finds(c, call[c].seen.data)]_vars

\* this step takes keys out of the map
Removes == (DOMAIN data) \ (DOMAIN data') # {}

\* this step is a caller's Delete or Reset taking effect
DeleteOrReset == \E c \in Callers : Leaves(c, "Delete.delete") \/ Leaves(c, "Reset.make")

\* C11: in a cache constructed with Config.CleanupInterval <= 0 no cleanup goroutine is
\* started, and no key leaves the map except by Delete or Reset; with
\* CleanupInterval > 0 the cleanup goroutine is started.
C11_DisabledSweep ==
    [][/\ cfgIn.CleanupInterval <= 0
          => (cpc = "none" /\ cpc' = "none" /\ (Removes => DeleteOrReset))
       /\ cfgIn.CleanupInterval > 0 => cpc # "none"]_vars

\* C12: once the context is cancelled the cleanup goroutine eventually stops; stopped
\* is terminal; the stop leaves the map unchanged; after it no key leaves the map
\* except by Delete or Reset; and Get still hides an expired item that is in the map.
C12_Stop ==
    /\ [][/\ cpc = "stopped" => cpc' = "stopped"
          /\ (cpc # "stopped" /\ cpc' = "stopped") => (ctxDone /\ data' = data)
          /\ (cpc = "stopped" /\ Removes) => DeleteOrReset
          /\ \A c \in Callers :
                (cpc = "stopped" /\ GetReturns(c))
                => (ret'[c].ok <=> (call[c].ok /\ ~Expired(call[c].item, now)))]_vars
    /\ (ctxDone ~> cpc = "stopped")

\* after the stop a Get returned not-found for an expired item that is still in the map
C12_Witness ==
    \E c \in Callers :
        /\ cpc = "stopped"
        /\ ret[c].op = "Get"
        /\ ~ret[c].ok
        /\ ret[c].key \in DOMAIN data
        /\ Expired(data[ret[c].key], now)

\* the goroutines inside a critical section are those that hold the lock
Holders ==
    /\ \A c \in Callers :
          /\ call[c].pc \in {"SetWithTTL.write", "Delete.delete", "Reset.make"} <=> mutW = c
          /\ call[c].pc = "Get.read" <=> c \in mutR
    /\ cpc = "scan" <=> "cleanup" \in mutR
    /\ cpc = "remove" <=> mutW = "cleanup"

\* C13: a Reset empties the whole map in one step, taken while no other goroutine is
\* inside a critical section, so every Get, Set, SetWithTTL, Delete and sweep pass is
\* entirely before or after it; a Get that reads after a Reset, with no write of the
\* key in between, returns not-found.
C13_ResetAtomic ==
    /\ [](Holders /\ (mutW # "none" => mutR = {}))
    /\ [][\A c \in Callers :
             /\ Leaves(c, "Reset.make")
                => (/\ data' = << >>
                    /\ mutW = c
                    /\ \A d \in Callers \ {c} :
                          /\ call[d].pc \notin {"SetWithTTL.write", "Delete.delete",
                                                "Reset.make", "Get.read"}
                          /\ call'[d] = call[d]
                    /\ cpc \notin {"scan", "remove"})
             /\ (GetReturns(c) /\ call[c].seen.kind = "reset") => ~ret'[c].ok]_vars

\* a Get has read after another caller's Reset of a map that held the key, and found
\* nothing
C13_Witness ==
    \E c \in Callers :
        /\ call[c].pc = "Get.expired"
        /\ call[c].op = "Get"
        /\ call[c].seen.kind = "reset"
        /\ call[c].seen.by # c
        /\ ~call[c].ok
        /\ hStored

\* the item the last Set, SetWithTTL or Remember of hKey stored
LastItem == [Data |-> hLast.data, TTL |-> IF hLast.until = 0 THEN 0 ELSE Unix(hLast.until)]

\* C14: every Remember that misses invokes its own query, whatever the other caller
\* is doing; a caller whose query succeeded gets its own value back; each write stores
\* the writer's whole item, so what the map holds under the key is the item of the
\* caller that wrote last, never a mix.
C14_NoSingleFlight ==
    /\ [](hKey \in DOMAIN data => (hLast.kind = "set" /\ data[hKey] = LastItem))
    /\ [][\A c \in Callers :
             /\ (/\ call[c].op = "Remember"
                  /\ Leaves(c, "Get.expired")
                  /\ ~GetResult(call[c].item, call[c].ok, now).ok)
                => (call'[c].pc = "query" /\ call'[c].queries = 1)
             /\ (call[c].op = "Remember" /\ Leaves(c, "SetWithTTL.write"))
                => (/\ data' = Store(hKey, newItem(Own(c), cfg.DefaultTTL, now))
                    /\ hLast'.by = c)
             /\ (call[c].op = "Remember" /\ Leaves(c, "Remember.return"))
                => (/\ ~ret'[c].err
                    /\ ret'[c].queries = 1
                    /\ Finds(c, Own(c)))]_vars

\* both callers missed on the never stored key, both queried and both wrote: the map
\* holds the value of the one that wrote last
C14_Witness ==
    \E c, d \in Callers :
        /\ c # d
        /\ \A e \in {c, d} : /\ call[e].op = "Remember"
                              /\ call[e].pc = "Remember.return"
                              /\ call[e].fresh
                              /\ call[e].queries = 1
        /\ hLast.by = d
        /\ hKey \in DOMAIN data
        /\ data[hKey].Data = Own(d)

\* hKey holds an item that Expired() reports expired
Stale1 == hKey \in DOMAIN data /\ Expired(data[hKey], now)

\* while the context is not cancelled and a tick is waiting, an expired item leaves the
\* map, unless it is overwritten
C15_Reclaimed == (Stale1 /\ tickerC /\ ~ctxDone) ~> (~Stale1 \/ ctxDone)

\* a scan that starts after the ttl of the item of hKey has elapsed collects hKey, and
\* the removal pass leaves none of the collected keys in the map
C15_FirstSweep ==
    [][/\ (/\ cpc = "scan" /\ cpc' # cpc
            /\ hKey \in DOMAIN data
            /\ hLast.kind = "set"
            /\ hLast.op = "SetWithTTL"
            /\ hLast.until > 0
            /\ now > hLast.until)
           => hKey \in toBeDeleted'
       /\ (cpc = "remove" /\ cpc' # cpc) => toBeDeleted \cap DOMAIN data' = {}]_vars

\* C15: while the cleanup goroutine runs and its ticker fires, an expired item that is
\* not overwritten is eventually removed from the map; an item whose ttl is shorter
\* than the cleanup interval is gone after the first sweep that starts after the ttl
\* has elapsed.
C15_SweepReclaims == C15_Reclaimed /\ C15_FirstSweep

\* this step is the cleanup goroutine leaving position pc
CleanupLeaves(pc) == cpc = pc /\ cpc' # pc

\* C16: on each wake the scan collects exactly the keys whose items are expired at the
\* scan; nothing the callers do changes what was collected; the removal pass deletes
\* exactly the collected keys and changes no other entry; no other step of the cleanup
\* goroutine changes the map. So a key whose item was not expired at the scan is not
\* deleted by that wake.
C16_SweepExact ==
    [][/\ CleanupLeaves("scan")
          => toBeDeleted' = {k \in DOMAIN data : data[k].TTL # 0 /\ Unix(now) > data[k].TTL}
       /\ (cpc \in {"Lock", "remove"} /\ cpc' \in {"Lock", "remove"})
          => toBeDeleted' = toBeDeleted
       /\ CleanupLeaves("remove")
          => (/\ DOMAIN data' = (DOMAIN data) \ toBeDeleted
              /\ \A k \in DOMAIN data' : data'[k] = data[k])
       /\ (cpc' # cpc /\ cpc # "remove") => data' = data]_vars

\* the sweep has removed hKey and has kept another key, whose item is not expired
C16_Witness ==
    /\ hLast.kind = "set"
    /\ hKey \notin DOMAIN data
    /\ cpc = "select"
    /\ \E k \in DOMAIN data : ~Expired(data[k], now)

\* C17: the scan releases the read lock before the removal pass asks for the write
\* lock, so a caller can store a fresh item in between; the removal pass deletes every
\* collected key without looking at its item again; a Get that then reads the key
\* returns not-found although the ttl of the fresh item has not elapsed.
C17_SweepRace ==
    [][/\ CleanupLeaves("scan") => (cpc' = "Lock" /\ mutW' = "none" /\ "cleanup" \notin mutR')
       /\ CleanupLeaves("remove") => toBeDeleted \cap DOMAIN data' = {}
       /\ \A c \in Callers :
             (GetReturns(c) /\ ~call[c].ok) => ~ret'[c].ok]_vars

\* the sweep has deleted the fresh item of hKey: a Get returned not-found before the
\* ttl of the last Set of hKey has elapsed
C17_Witness ==
    \E c \in Callers :
        /\ ret[c].op = "Get"
        /\ ret[c].key = hKey
        /\ ~ret[c].ok
        /\ hLast.kind = "set"
        /\ hLast.until > 0
        /\ now < hLast.until
        /\ hKey \notin DOMAIN data

\* caller c is inside its query function
Computing(c) == call[c].pc = "query"

\* C18: a caller inside its query function holds neither the read lock nor the write
\* lock; even when a query never returns, every other call and every sweep that has
\* started comes to its end: again and again each caller is outside the cache's code
\* or inside its query function, and the cleanup goroutine is waiting in its select.
C18_NoLockAcrossQuery ==
    /\ [](\A c \in Callers : Computing(c) => (mutW # c /\ c \notin mutR))
    /\ \A c \in Callers : []<>(call[c].pc \in {"idle", "query"})
    /\ []<>(cpc \in {"spawned", "select"})

\* while c1 is inside its query function, c2 holds the write lock for a Set it entered
\* after c1's query began
C18_Witness ==
    /\ Computing("c1")
    /\ call["c2"].pc = "SetWithTTL.write"
    /\ mutW = "c2"
    /\ call["c1"].dirty

\* the goroutines that use Cache.mut
Goroutines == Callers \cup {"cleanup"}

\* C20: no goroutine asks for the lock while it holds it (the sweep has released the
\* read lock when it asks for the write lock), and with fair scheduling and query
\* functions that return, every call that has started returns and every sweep that has
\* started ends: again and again each caller is outside the cache's code and the
\* cleanup goroutine is waiting in its select.
C20_Completes ==
    /\ [](/\ cpc = "Lock" => ("cleanup" \notin mutR /\ mutW # "cleanup")
          /\ cpc = "RLock" => ("cleanup" \notin mutR /\ mutW # "cleanup")
          /\ \A c \in Callers :
                call[c].pc \in {"SetWithTTL.Lock", "Delete.Lock", "Reset.Lock", "Get.RLock"}
                => (c \notin mutR /\ mutW # c))
    /\ [][\A g \in Goroutines :
             /\ (mutW' = g /\ mutW # g) => (mutW = "none" /\ mutR = {})
             /\ (g \in mutR' /\ g \notin mutR) => mutW = "none"]_vars
    /\ \A c \in Callers : []<>(call[c].pc = "idle")
    /\ []<>(cpc \in {"spawned", "select"})

\* both callers have returned, c1 from a Remember that queried and stored, c2 from a
\* Get, Delete or Reset, and the sweep that started after the clock's jump has ended
C20_Witness ==
    /\ ret["c1"].op \in RememberOps
    /\ ret["c1"].queries = 1
    /\ ret["c1"].ok
    /\ ret["c2"].op \in {"Get", "Delete", "Reset"}
    /\ \A c \in Callers : call[c].pc = "idle"
    /\ now > Start
    /\ cpc = "select"
    /\ ~tickerC

\* this step is a step of caller c's Get, its entry and its return included
GetStep(c) ==
    /\ call'[c] # call[c]
    /\ call[c].op = "Get" \/ (call[c].pc = "idle" /\ call'[c].op = "Get")

\* C19: no step of a Get changes the map or takes the write lock, whether the key is
\* present, absent or expired; a Get that returns not-found because the item it read
\* is expired leaves the map as it is.
C19_GetReadOnly ==
    /\ [](\A c \in Callers : call[c].op = "Get" => mutW # c)
    /\ [][\A c \in Callers :
             /\ GetStep(c) => (data' = data /\ mutW' = mutW)
             /\ (GetReturns(c) /\ call[c].ok /\ Expired(call[c].item, now))
                => (~ret'[c].ok /\ data' = data)]_vars

\* a Get has returned not-found for a key whose expired item is still in the map,
\* while the cleanup goroutine is running
C19_Witness ==
    \E c \in Callers :
        /\ ret[c].op = "Get"
        /\ ~ret[c].ok
        /\ ret[c].key \in DOMAIN data
        /\ Expired(data[ret[c].key], now)
        /\ ~ctxDone
        /\ cpc = "select"

====
